---- MODULE Spec2Model ----
(***************************************************************************)
(* Latency Analytics API (src/api/index.py): the module-level grouping of  *)
(* TELEMETRY_DATA into PROCESSED_DATA, and the two request handlers,       *)
(* analyze_latency (POST /api/latency) and root (GET /).                   *)
(*                                                                         *)
(* Numbers.  The dataset's latencies are decimals with at most two         *)
(* fractional digits and its uptimes decimals with at most three, so a     *)
(* latency is held in hundredths of a millisecond (103.67 is 10367), an    *)
(* uptime in thousandths of a percent (99.269 is 99269), avg_latency and   *)
(* p95_latency in hundredths and avg_uptime in ten-thousandths.  A value   *)
(* that np.mean or np.percentile returns is held as an exact fraction      *)
(* [num, den]; round() takes it to the nearest integer of the target unit. *)
(* Where the exact value lies half way between two neighbours the binary   *)
(* floating-point error of the real computation decides the direction;     *)
(* RoundTie is that fixed but unspecified direction.                       *)
(***************************************************************************)
EXTENDS Integers, Sequences, FiniteSets, TLC

\* ------------------------------------------------------------------ bounds

\* Connections that may have a request in flight at the same time.
NumClients == 2

\* Longest regions list a request carries.
MaxRegions == 2

\* Longest alternate dataset (SpecAny).
MaxSamples == 3

\* ----------------------------------------------------------------- dataset

Sample(region, service, latency_ms, uptime_pct, timestamp) ==
    [region |-> region, service |-> service, latency_ms |-> latency_ms,
     uptime_pct |-> uptime_pct, timestamp |-> timestamp]

TELEMETRY_DATA == <<
    Sample("apac", "catalog", 10367, 99269, 20250301),
    Sample("apac", "support", 20681, 98880, 20250302),
    Sample("apac", "analytics", 15040, 97798, 20250303),
    Sample("apac", "checkout", 13944, 97891, 20250304),
    Sample("apac", "support", 15957, 97519, 20250305),
    Sample("apac", "checkout", 23117, 97365, 20250306),
    Sample("apac", "checkout", 15599, 97822, 20250307),
    Sample("apac", "recommendations", 17731, 97575, 20250308),
    Sample("apac", "payments", 23658, 97270, 20250309),
    Sample("apac", "support", 15206, 98879, 20250310),
    Sample("apac", "analytics", 14373, 98738, 20250311),
    Sample("apac", "checkout", 10063, 98563, 20250312),
    Sample("emea", "analytics", 18677, 97498, 20250301),
    Sample("emea", "support", 22388, 99071, 20250302),
    Sample("emea", "payments", 22529, 98303, 20250303),
    Sample("emea", "payments", 12649, 97432, 20250304),
    Sample("emea", "catalog", 18337, 99029, 20250305),
    Sample("emea", "support", 16976, 98480, 20250306),
    Sample("emea", "catalog", 13566, 97909, 20250307),
    Sample("emea", "support", 12556, 97164, 20250308),
    Sample("emea", "recommendations", 21931, 97868, 20250309),
    Sample("emea", "payments", 13200, 99200, 20250310),
    Sample("emea", "checkout", 12216, 98539, 20250311),
    Sample("emea", "checkout", 10786, 98703, 20250312),
    Sample("amer", "recommendations", 16282, 98083, 20250301),
    Sample("amer", "recommendations", 17190, 97271, 20250302),
    Sample("amer", "analytics", 15474, 98954, 20250303),
    Sample("amer", "recommendations", 13084, 98581, 20250304),
    Sample("amer", "payments", 22248, 98746, 20250305),
    Sample("amer", "support", 12392, 99387, 20250306),
    Sample("amer", "payments", 18361, 99035, 20250307),
    Sample("amer", "analytics", 15798, 99103, 20250308),
    Sample("amer", "recommendations", 21252, 98047, 20250309),
    Sample("amer", "payments", 21567, 99020, 20250310),
    Sample("amer", "recommendations", 14113, 99242, 20250311),
    Sample("amer", "payments", 13405, 98826, 20250312)

>>

\* ---------------------------------------------------------- request inputs

\* Region strings a client may send: the three keys of the dataset, a string
\* with no samples, and a key in another case.
RegionNames == {"apac", "emea", "amer", "mars", "APAC"}

\* regions: List[str], up to MaxRegions entries, duplicates allowed.
RegionLists == UNION {[1..n -> RegionNames] : n \in 0..MaxRegions}

\* threshold_ms: int. Negative, zero, a value equal to a sample (132) and the
\* value of the specification's scenario.
Thresholds == {-1, 0, 132, 150}

\* What the connections of the concurrent service send: a region with data
\* and one without, alone, together or repeated, under two thresholds.
ConcurrentLists == UNION {[1..n -> {"apac", "mars"}] : n \in 0..MaxRegions}

ConcurrentThresholds == {0, 150}

Clients == 1..NumClients

\* Alternate datasets: every sequence of 1..MaxSamples samples of one region
\* with latencies drawn from AnyLatencies, and the literal dataset itself.
AnyLatencies == {100, 107, 13200}

AnyDatasets ==
    {TELEMETRY_DATA} \cup
    UNION {[1..n -> {Sample("apac", "catalog", l, 99000, 20250301) : l \in AnyLatencies}]
             : n \in 1..MaxSamples}

\* ------------------------------------------------------------------- state

VARIABLES
    telemetry,       \* the list TELEMETRY_DATA the process was started with
    PROCESSED_DATA,  \* defaultdict: region -> [latencies, uptimes]
    loadPos,         \* items of telemetry the module-level loop has grouped
    conn             \* per connection: the request in flight and its response

vars == <<telemetry, PROCESSED_DATA, loadPos, conn>>

\* --------------------------------------------------------------- defaultdict

\* The default factory: lambda: {'latencies': [], 'uptimes': []}.
DefaultBucket == [latencies |-> <<>>, uptimes |-> <<>>]

\* Lower-case form of the region strings in use.
Lower(s) == IF s = "APAC" THEN "apac" ELSE s

\* Contains with the key normalised to lower case before the test.
ContainsIgnoreCase(d, key) == Lower(key) \in DOMAIN d

\* key in d: a membership test, which never runs the default factory.
Contains(d, key) == key \in DOMAIN d

\* The dict after d[key]: a missing key is inserted with the default bucket.
GetItem(d, key) == IF key \in DOMAIN d THEN d ELSE (key :> DefaultBucket) @@ d

\* AppendSample with the uptime inserted at the front of its list.
AppendSampleMisaligned(d, item) ==
    LET region == item.region
        d1 == GetItem(d, region)
        d2 == [d1 EXCEPT ![region].latencies = Append(@, item.latency_ms)]
    IN  [d2 EXCEPT ![region].uptimes = <<item.uptime_pct>> \o @]

\* The body of the grouping loop for one item.
AppendSample(d, item) ==
    LET region == item.region
        d1 == GetItem(d, region)
        d2 == [d1 EXCEPT ![region].latencies = Append(@, item.latency_ms)]
        d3 == GetItem(d2, region)
    IN  [d3 EXCEPT ![region].uptimes = Append(@, item.uptime_pct)]

\* ------------------------------------------------------------------- numpy

\* Fractional digits of the units latencies and uptimes are held in.
LatencyDigits == 2
UptimeDigits == 3

\* What np.mean and np.percentile give for an empty input, and round() of it.
NaN == -1
NaNFraction == [num |-> 0, den |-> 0]

RECURSIVE Sum(_)
Sum(L) == IF L = <<>> THEN 0 ELSE Head(L) + Sum(Tail(L))

RECURSIVE Pow10(_)
Pow10(k) == IF k = 0 THEN 1 ELSE 10 * Pow10(k - 1)

\* Mean with floor division (sum // len), in whole milliseconds.
MeanFloorDiv(L) ==
    IF Len(L) = 0 THEN NaNFraction
    ELSE [num |-> ((Sum(L) \div Len(L)) \div Pow10(LatencyDigits)) * Pow10(LatencyDigits),
          den |-> 1]

\* np.mean(L): the sum over the count.
Mean(L) == IF Len(L) = 0 THEN NaNFraction ELSE [num |-> Sum(L), den |-> Len(L)]

RECURSIVE Insert(_, _)
Insert(x, S) ==
    IF S = <<>> THEN <<x>>
    ELSE IF x <= Head(S) THEN <<x>> \o S
    ELSE <<Head(S)>> \o Insert(x, Tail(S))

\* Ascending order of a copy of L (the input list is not touched).
RECURSIVE Sort(_)
Sort(L) == IF L = <<>> THEN <<>> ELSE Insert(Head(L), Sort(Tail(L)))

Min(a, b) == IF a <= b THEN a ELSE b

\* Percentile by nearest rank: the sample at the rounded-up virtual index.
PercentileNearestRank(L, q) ==
    IF Len(L) = 0 THEN NaNFraction
    ELSE LET n == Len(L)
             virtual == (n - 1) * q
             rank == IF virtual % 100 = 0 THEN virtual \div 100
                     ELSE virtual \div 100 + 1
         IN  [num |-> Sort(L)[rank + 1], den |-> 1]

\* The linear interpolation of np.percentile on the sorted array arr: the
\* virtual index (n - 1) * q / 100, the sample below it, the sample after
\* that one (clipped to the last), and the interpolation between the two by
\* the index's fractional part.
Interpolate(arr, q) ==
    LET n == Len(arr)
        virtual == (n - 1) * q            \* in hundredths of an index
        previous == virtual \div 100
        next == Min(previous + 1, n - 1)
        gamma == virtual % 100            \* in hundredths
    IN  [num |-> 100 * arr[previous + 1]
                   + gamma * (arr[next + 1] - arr[previous + 1]),
         den |-> 100]

\* np.percentile(L, q), method "linear".
Percentile(L, q) ==
    IF Len(L) = 0 THEN NaNFraction ELSE Interpolate(Sort(L), q)

\* The direction floating point takes from an exact half: fixed, unspecified.
RoundTie(lower) == CHOOSE v \in {lower, lower + 1} : TRUE

\* Rounding up to the next unit (math.ceil).
RoundCeil(num, den) == IF num % den = 0 THEN num \div den ELSE num \div den + 1

RoundNearest(num, den) ==
    LET q == num \div den
        r == num % den
    IN  IF 2 * r < den THEN q
        ELSE IF 2 * r > den THEN q + 1
        ELSE RoundTie(q)

\* round(x, ndigits) of a value held in units of 10^-unitDigits.
Round(x, ndigits, unitDigits) ==
    IF x.den = 0 THEN NaN
    ELSE RoundNearest(x.num * Pow10(ndigits - unitDigits), x.den)

\* Breaches with >= in place of >.
BreachesAtLeast(L, threshold_ms) ==
    Cardinality({i \in 1..Len(L) : L[i] >= threshold_ms * Pow10(LatencyDigits)})

\* Breaches with < in place of >.
BreachesBelow(L, threshold_ms) ==
    Cardinality({i \in 1..Len(L) : L[i] < threshold_ms * Pow10(LatencyDigits)})

\* int(np.sum(np.array(L) > threshold_ms)).
Breaches(L, threshold_ms) ==
    Cardinality({i \in 1..Len(L) : L[i] > threshold_ms * Pow10(LatencyDigits)})

\* ------------------------------------------------------------- the handlers

ZeroEntry == [avg_latency |-> 0, p95_latency |-> 0, avg_uptime |-> 0, breaches |-> 0]

\* results[region] = entry.
SetResult(results, region, entry) ==
    [r \in DOMAIN results \cup {region} |->
        IF r = region THEN entry ELSE results[r]]

\* The statistics entry of a bucket, as lines 105 to 117 compute it.
StatsEntry(bucket, threshold_ms) ==
    [avg_latency |-> Round(Mean(bucket.latencies), 2, LatencyDigits),
     p95_latency |-> Round(Percentile(bucket.latencies, 95), 2, LatencyDigits),
     avg_uptime |-> Round(Mean(bucket.uptimes), 4, UptimeDigits),
     breaches |-> Breaches(bucket.latencies, threshold_ms)]

\* LoopBody that skips a region without data instead of reporting zeros.
LoopBodySkipUnknown(acc, region, threshold_ms) ==
    IF ~Contains(acc.store, region) THEN acc
    ELSE [results |-> SetResult(acc.results, region,
                         StatsEntry(acc.store[region], threshold_ms)),
          store |-> acc.store]

\* LoopBody whose branch for a region without data indexes PROCESSED_DATA
\* (PROCESSED_DATA[region]), which inserts the default bucket.
LoopBodyTouchUnknown(acc, region, threshold_ms) ==
    IF ~Contains(acc.store, region)
    THEN [results |-> SetResult(acc.results, region, ZeroEntry),
          store |-> GetItem(acc.store, region)]
    ELSE [results |-> SetResult(acc.results, region,
                         StatsEntry(acc.store[region], threshold_ms)),
          store |-> acc.store]

\* LoopBody that sorts the bucket's latency list in place (latencies.sort())
\* before it takes the percentile.
LoopBodySortInPlace(acc, region, threshold_ms) ==
    IF ~Contains(acc.store, region)
    THEN [results |-> SetResult(acc.results, region, ZeroEntry),
          store |-> acc.store]
    ELSE [results |-> SetResult(acc.results, region,
                         StatsEntry(acc.store[region], threshold_ms)),
          store |-> [acc.store EXCEPT ![region].latencies = Sort(@)]]

\* One iteration of the loop over request.regions. acc is the handler's
\* results dict and the process's PROCESSED_DATA as the iteration finds them.
LoopBody(acc, region, threshold_ms) ==
    IF ~Contains(acc.store, region)
    THEN [results |-> SetResult(acc.results, region, ZeroEntry),
          store |-> acc.store]
    ELSE LET s1 == GetItem(acc.store, region)
             latencies == s1[region].latencies
             s2 == GetItem(s1, region)
             uptimes == s2[region].uptimes
         IN  [results |-> SetResult(acc.results, region,
                            StatsEntry([latencies |-> latencies, uptimes |-> uptimes],
                                       threshold_ms)),
              store |-> s2]

RECURSIVE Loop(_, _, _)
Loop(acc, regions, threshold_ms) ==
    IF regions = <<>> THEN acc
    ELSE Loop(LoopBody(acc, Head(regions), threshold_ms), Tail(regions), threshold_ms)

\* analyze_latency run to its return on the store it finds: the response body
\* (results) and the store it leaves.
Analyze(store, regions, threshold_ms) ==
    Loop([results |-> <<>>, store |-> store], regions, threshold_ms)

RootBody == [message |-> "Latency Analytics API", status |-> "running"]

Idle == [state |-> "idle", path |-> "", regions |-> <<>>, threshold_ms |-> 0,
         body |-> <<>>]

Loaded == loadPos = Len(telemetry)

\* -------------------------------------------------------------- the actions

Init ==
    /\ telemetry = TELEMETRY_DATA
    /\ PROCESSED_DATA = <<>>
    /\ loadPos = 0
    /\ conn = [c \in Clients |-> Idle]

\* for item in TELEMETRY_DATA: one iteration of the module-level loop.
LoadItem ==
    /\ loadPos < Len(telemetry)
    /\ PROCESSED_DATA' = AppendSample(PROCESSED_DATA, telemetry[loadPos + 1])
    /\ loadPos' = loadPos + 1
    /\ UNCHANGED <<telemetry, conn>>

\* A validated POST /api/latency arrives on connection c, its fields drawn
\* from the given sets. The application serves requests only once the module
\* has been imported.
PostLatency(c, lists, thresholds) ==
    /\ Loaded
    /\ conn[c].state = "idle"
    /\ \E regions \in lists, threshold_ms \in thresholds :
          conn' = [conn EXCEPT ![c] =
                      [state |-> "pending", path |-> "/api/latency",
                       regions |-> regions, threshold_ms |-> threshold_ms,
                       body |-> <<>>]]
    /\ UNCHANGED <<telemetry, PROCESSED_DATA, loadPos>>

\* A GET / arrives on connection c.
GetRoot(c) ==
    /\ Loaded
    /\ conn[c].state = "idle"
    /\ conn' = [conn EXCEPT ![c] =
                   [state |-> "pending", path |-> "/", regions |-> <<>>,
                    threshold_ms |-> 0, body |-> <<>>]]
    /\ UNCHANGED <<telemetry, PROCESSED_DATA, loadPos>>

\* analyze_latency returns out: its results are the response body and the
\* store it leaves is the process's.
Returned(c, out) ==
    /\ conn' = [conn EXCEPT ![c].state = "done", ![c].body = out.results]
    /\ PROCESSED_DATA' = out.store

\* analyze_latency(request): the coroutine has no await, so it runs from its
\* first line to its return without another handler in between.
AnalyzeLatency(c) ==
    /\ conn[c].state = "pending"
    /\ conn[c].path = "/api/latency"
    /\ Returned(c, Analyze(PROCESSED_DATA, conn[c].regions, conn[c].threshold_ms))
    /\ UNCHANGED <<telemetry, loadPos>>

\* root().
Root(c) ==
    /\ conn[c].state = "pending"
    /\ conn[c].path = "/"
    /\ conn' = [conn EXCEPT ![c].state = "done", ![c].body = RootBody]
    /\ UNCHANGED <<telemetry, PROCESSED_DATA, loadPos>>

\* The response on connection c is sent, which frees the connection.
Respond(c) ==
    /\ conn[c].state = "done"
    /\ conn' = [conn EXCEPT ![c] = Idle]
    /\ UNCHANGED <<telemetry, PROCESSED_DATA, loadPos>>

Next ==
    \/ LoadItem
    \/ \E c \in Clients : PostLatency(c, ConcurrentLists, ConcurrentThresholds)
    \/ \E c \in Clients : GetRoot(c)
    \/ \E c \in Clients : AnalyzeLatency(c)
    \/ \E c \in Clients : Root(c)
    \/ \E c \in Clients : Respond(c)

\* The service with NumClients connections whose requests arrive and are
\* handled in any order.
Spec == Init /\ [][Next]_vars

\* The service with one connection: every sequence of requests, one at a time.
NextSerial ==
    \/ LoadItem
    \/ PostLatency(1, RegionLists, Thresholds)
    \/ GetRoot(1)
    \/ AnalyzeLatency(1)
    \/ Root(1)
    \/ Respond(1)

SpecSerial == Init /\ [][NextSerial]_vars

\* The same program started on an alternate dataset.
InitAny ==
    /\ telemetry \in AnyDatasets
    /\ PROCESSED_DATA = <<>>
    /\ loadPos = 0
    /\ conn = [c \in Clients |-> Idle]

SpecAny == InitAny /\ [][NextSerial]_vars

\* ------------------------------------------------- what the claims speak of

\* Connections holding the response of a POST /api/latency.
DonePosts == {c \in Clients : conn[c].state = "done" /\ conn[c].path = "/api/latency"}

\* The strings of a regions list.
Listed(regions) == {regions[i] : i \in 1..Len(regions)}

\* The region identifiers of the literal dataset.
LiteralRegions == {TELEMETRY_DATA[i].region : i \in 1..Len(TELEMETRY_DATA)}

\* Positions of the literal dataset's samples of region r.
PositionsOf(r) == {i \in 1..Len(TELEMETRY_DATA) : TELEMETRY_DATA[i].region = r}

\* Position in the literal dataset of the j-th sample of region r.
NthOf(r, j) ==
    CHOOSE i \in PositionsOf(r) : Cardinality({k \in PositionsOf(r) : k <= i}) = j

RECURSIVE SumOver(_, _)
SumOver(f, S) ==
    IF S = {} THEN 0
    ELSE LET x == CHOOSE y \in S : TRUE IN f[x] + SumOver(f, S \ {x})

\* v is a nearest integer to num / den (either neighbour of an exact half).
IsNearest(v, num, den) ==
    /\ 2 * (v * den - num) <= den
    /\ 2 * (num - v * den) <= den

\* The k-th smallest element of L (k from 1), by counting.
KthSmallest(L, k) ==
    CHOOSE v \in Listed(L) :
        /\ Cardinality({i \in 1..Len(L) : L[i] < v}) < k
        /\ k <= Cardinality({i \in 1..Len(L) : L[i] <= v})

\* The store a fresh start of the process builds from the literal dataset.
RECURSIVE Grouped(_, _)
Grouped(d, items) ==
    IF items = <<>> THEN d ELSE Grouped(AppendSample(d, Head(items)), Tail(items))

FreshStore == Grouped(<<>>, TELEMETRY_DATA)

\* ------------------------------------------------------------------ claims

\* C1: every region of a request that is not, letter for letter, a region of
\* the literal dataset gets the entry {avg_latency: 0, p95_latency: 0,
\* avg_uptime: 0, breaches: 0} in the response, whatever the threshold.
C1_UnknownRegionZeroFilled ==
    \A c \in DonePosts :
        \A r \in Listed(conn[c].regions) \ LiteralRegions :
            /\ r \in DOMAIN conn[c].body
            /\ conn[c].body[r] = ZeroEntry

\* A response to ["APAC", "mars"] with threshold -1 has been sent.
C1_Witness ==
    \E c \in DonePosts :
        /\ conn[c].regions = <<"APAC", "mars">>
        /\ conn[c].threshold_ms = -1
        /\ conn[c].body["APAC"] = ZeroEntry

\* C2: the keys of a response are exactly the distinct strings of the regions
\* list (none for an empty list), and each entry is the entry a request
\* listing that region alone with the same threshold obtains.
C2_KeysAreDistinctRegions ==
    \A c \in DonePosts :
        /\ DOMAIN conn[c].body = Listed(conn[c].regions)
        /\ conn[c].regions = <<>> => conn[c].body = <<>>
        /\ \A r \in DOMAIN conn[c].body :
              conn[c].body[r] =
                  Analyze(PROCESSED_DATA, <<r>>, conn[c].threshold_ms).results[r]

\* A response to ["emea", "emea"] holds the single key "emea".
C2_Witness ==
    \E c \in DonePosts :
        /\ conn[c].regions = <<"emea", "emea">>
        /\ DOMAIN conn[c].body = {"emea"}
        /\ conn[c].body["emea"].breaches > 0

\* C3: for a region a response reports and every threshold at or above the
\* request's, the breaches the handler returns for that region under the
\* larger threshold are no more than the breaches of the response.
C3_BreachesMonotone ==
    \A c \in DonePosts :
        \A r \in DOMAIN conn[c].body :
            \A t2 \in Thresholds :
                conn[c].threshold_ms <= t2
                    => Analyze(PROCESSED_DATA, <<r>>, t2).results[r].breaches
                           <= conn[c].body[r].breaches

\* "emea" answered for threshold -1 with all 12 samples in breach, where
\* threshold 132 leaves 7.
C3_Witness ==
    \E c \in DonePosts :
        /\ conn[c].threshold_ms = -1
        /\ "emea" \in DOMAIN conn[c].body
        /\ conn[c].body["emea"].breaches = 12
        /\ Analyze(PROCESSED_DATA, <<"emea">>, 132).results["emea"].breaches = 7

\* C4: for a region of the store, breaches is the number of the bucket's
\* latencies strictly greater than threshold_ms, for any integer threshold.
C4_BreachesCountStrictlyGreater ==
    \A c \in DonePosts :
        \A r \in DOMAIN conn[c].body \cap DOMAIN PROCESSED_DATA :
            LET L == PROCESSED_DATA[r].latencies
            IN  conn[c].body[r].breaches =
                    Cardinality({i \in 1..Len(L) : L[i] > 100 * conn[c].threshold_ms})

\* "emea", which holds the sample 132, answered for threshold 132: 7 breaches.
C4_Witness ==
    \E c \in DonePosts :
        /\ conn[c].threshold_ms = 132
        /\ "emea" \in DOMAIN conn[c].body
        /\ \E i \in 1..Len(PROCESSED_DATA["emea"].latencies) :
              PROCESSED_DATA["emea"].latencies[i] = 13200
        /\ conn[c].body["emea"].breaches = 7

\* C5: for a region of the store, avg_latency is the mean of the literal
\* dataset's latencies of that region rounded to hundredths, whatever the
\* threshold and the other regions of the request.
C5_AvgLatencyIsRoundedMean ==
    \A c \in DonePosts :
        \A r \in DOMAIN conn[c].body \cap DOMAIN PROCESSED_DATA :
            /\ PositionsOf(r) # {}
            /\ IsNearest(conn[c].body[r].avg_latency,
                         SumOver([i \in PositionsOf(r) |-> TELEMETRY_DATA[i].latency_ms],
                                 PositionsOf(r)),
                         Cardinality(PositionsOf(r)))

\* "amer" answered next to an unknown region, for threshold 150: 167.64.
C5_Witness ==
    \E c \in DonePosts :
        /\ conn[c].regions = <<"mars", "amer">>
        /\ conn[c].threshold_ms = 150
        /\ conn[c].body["amer"].avg_latency = 16764

\* C6: for a bucket of n >= 1 latencies, with r = 0.95 * (n - 1), lo =
\* floor(r), hi = ceil(r) and frac = r - lo: 0 <= lo <= hi <= n - 1, and
\* p95_latency is sorted[lo] + frac * (sorted[hi] - sorted[lo]) rounded to
\* hundredths; for n = 1 it is the single sample.
C6_P95LinearInterpolation ==
    \A c \in DonePosts :
        \A reg \in DOMAIN conn[c].body \cap DOMAIN PROCESSED_DATA :
            LET L == PROCESSED_DATA[reg].latencies
                n == Len(L)
                r100 == 95 * (n - 1)
                lo == r100 \div 100
                hi == IF r100 % 100 = 0 THEN lo ELSE lo + 1
                frac100 == r100 - 100 * lo
                p95 == conn[c].body[reg].p95_latency
            IN  /\ n >= 1
                /\ 0 <= lo /\ lo <= hi /\ hi <= n - 1
                /\ IsNearest(p95,
                             100 * KthSmallest(L, lo + 1)
                               + frac100 * (KthSmallest(L, hi + 1) - KthSmallest(L, lo + 1)),
                             100)
                /\ n = 1 => p95 = L[1]

\* A bucket of the two unsorted samples 132.00 and 1.00 answered: 125.45.
C6_Witness ==
    /\ telemetry # TELEMETRY_DATA
    /\ \E c \in DonePosts :
          /\ "apac" \in DOMAIN conn[c].body \cap DOMAIN PROCESSED_DATA
          /\ PROCESSED_DATA["apac"].latencies = <<13200, 100>>
          /\ conn[c].body["apac"].p95_latency = 12545

\* C7 as stated: avg_latency of "apac" is 161.78.
C7_ApacAvgLatency16178 ==
    \A c \in DonePosts :
        "apac" \in DOMAIN conn[c].body => conn[c].body["apac"].avg_latency = 16178

\* C7, amended: the bucket of "apac" holds the 12 latencies of the literal
\* dataset, whose sum is 1957.36, and avg_latency of "apac" is their mean
\* rounded to hundredths, 163.11.
C7_ApacAvgLatency16311 ==
    \A c \in DonePosts :
        "apac" \in DOMAIN conn[c].body =>
            /\ Len(PROCESSED_DATA["apac"].latencies) = 12
            /\ Sum(PROCESSED_DATA["apac"].latencies) = 195736
            /\ conn[c].body["apac"].avg_latency = 16311

\* "apac" answered alone.
C7_Witness ==
    \E c \in DonePosts :
        /\ conn[c].regions = <<"apac">>
        /\ conn[c].body["apac"].avg_latency = 16311

\* C8: once the grouping loop has ended, the buckets are those of the literal
\* dataset's regions, each with as many latencies as uptimes and at least
\* one, their sizes adding up to the number of samples, and the j-th latency
\* and j-th uptime of a bucket are those of the j-th sample of its region in
\* dataset order.
C8_BucketsGroupDataset ==
    Loaded =>
        /\ DOMAIN PROCESSED_DATA = LiteralRegions
        /\ \A r \in DOMAIN PROCESSED_DATA :
              LET b == PROCESSED_DATA[r]
              IN  /\ Len(b.latencies) = Len(b.uptimes)
                  /\ Len(b.latencies) >= 1
                  /\ Len(b.latencies) = Cardinality(PositionsOf(r))
                  /\ \A j \in 1..Len(b.latencies) :
                        /\ b.latencies[j] = TELEMETRY_DATA[NthOf(r, j)].latency_ms
                        /\ b.uptimes[j] = TELEMETRY_DATA[NthOf(r, j)].uptime_pct
        /\ SumOver([r \in DOMAIN PROCESSED_DATA |-> Len(PROCESSED_DATA[r].latencies)],
                   DOMAIN PROCESSED_DATA) = Len(TELEMETRY_DATA)

\* The store after a request for a known and an unknown region was answered.
C8_Witness ==
    /\ Loaded
    /\ Len(PROCESSED_DATA["amer"].uptimes) = 12
    /\ \E c \in DonePosts : conn[c].regions = <<"amer", "mars">>

\* C9: once the grouping loop has ended no step (no POST /api/latency, no
\* GET /, arriving or handled) changes PROCESSED_DATA, and no string outside
\* the literal dataset's regions becomes a key of it.
C9_StoreNeverMutated ==
    [][Loaded => /\ PROCESSED_DATA' = PROCESSED_DATA
                 /\ DOMAIN PROCESSED_DATA' = LiteralRegions]_vars

\* A request naming the unknown region "mars" was answered and "mars" is
\* still no key of the store.
C9_Witness ==
    /\ \E c \in DonePosts : "mars" \in Listed(conn[c].regions)
    /\ ~Contains(PROCESSED_DATA, "mars")
    /\ Contains(PROCESSED_DATA, "apac")

\* C10: whatever requests came before or are in flight, a response is the one
\* the same regions and threshold obtain alone on a freshly built store; two
\* responses to identical arguments are identical.
C10_ResponseAsIfAlone ==
    /\ \A c \in DonePosts :
          conn[c].body = Analyze(FreshStore, conn[c].regions, conn[c].threshold_ms).results
    /\ \A c1 \in DonePosts, c2 \in DonePosts :
          (conn[c1].regions = conn[c2].regions
             /\ conn[c1].threshold_ms = conn[c2].threshold_ms)
              => conn[c1].body = conn[c2].body

\* Two connections hold responses to the same request, ["mars", "apac"] with
\* threshold 150.
C10_Witness ==
    \E c1 \in DonePosts, c2 \in DonePosts :
        /\ c1 # c2
        /\ conn[c1].regions = <<"mars", "apac">>
        /\ conn[c2].regions = <<"mars", "apac">>
        /\ conn[c1].threshold_ms = 150
        /\ conn[c2].threshold_ms = 150
        /\ conn[c1].body["apac"].breaches = 8

====
